---------------------------- MODULE Spec2Model ----------------------------
(***************************************************************************)
(* Model of Huffman.py: encode / decode and encode_to_files /              *)
(* decode_from_files, with the heapq operations and the tuple comparison   *)
(* of Node that make_tree depends on.                                      *)
(*                                                                         *)
(* Letters are code points: 0 is '\0', the letter make_tree gives to       *)
(* internal nodes.  A string of '0'/'1' characters is a sequence over      *)
(* {0, 1}.  Python's None is the empty tuple.  A raised exception is the   *)
(* name of its class in the err field of a result.                         *)
(***************************************************************************)
EXTENDS Integers, Sequences, FiniteSets, TLC

\* ------------------------------------------------------------ bounds
MaxSym == 2          \* letters are 0..MaxSym
MaxLen == 5          \* longest text given to encode
MaxFileLen == 6      \* longest text given to encode_to_files
MaxCut == 2          \* decode is also run on the code with up to MaxCut trailing bits dropped
MaxData == 1         \* full data bytes of a code file that another writer produced
ByteStep == 85       \* such a file's bytes are the multiples of ByteStep below 256
MaxCodeLen == 3      \* longest code word of the competing prefix-free codes

Letters == 0..MaxSym

RECURSIVE SeqsUpTo(_, _)
SeqsUpTo(S, n) ==
    IF n = 0 THEN {<<>>}
    ELSE LET shorter == SeqsUpTo(S, n - 1)
         IN  shorter \cup {Append(s, x) : s \in {t \in shorter : Len(t) = n - 1}, x \in S}

Texts == SeqsUpTo(Letters, MaxLen)
FileTexts == SeqsUpTo(Letters, MaxFileLen)

\* ------------------------------------------------------------ values
None == <<>>

\* Node = namedtuple('Node', ['count', 'letter', 'left', 'right'])
Node(count, letter, left, right) ==
    [count |-> count, letter |-> letter, left |-> left, right |-> right]

\* CompressNode = namedtuple('CompressNode', ['letter', 'left', 'right'])
CompressNode(letter, left, right) ==
    [letter |-> letter, left |-> left, right |-> right]

Ok(v) == [err |-> "none", val |-> v]
Raise(e) == [err |-> e, val |-> None]

\* Python's 0-based list indexing.
At(l, i) == l[i + 1]
Put(l, i, v) == [l EXCEPT ![i + 1] = v]

Bool(b) == IF b THEN "true" ELSE "false"

\* if a < b: ... else: ..., where evaluating a < b may raise TypeError.
IfLt(lt, yes, no) ==
    IF lt = "TypeError" THEN Raise("TypeError") ELSE IF lt = "true" THEN yes ELSE no

\* ------------------------------------------------------------ Node ordering
\* a < b on two Nodes is Python's tuple comparison: the first field that
\* differs decides.  count and letter are ints and strs; left and right are
\* None or a Node, and None < Node (either way round) raises TypeError.
\* NodeLt with the counts compared the wrong way round.
RECURSIVE NodeLtReversed(_, _)
NodeLtReversed(a, b) ==
    IF a.count # b.count THEN Bool(a.count > b.count)
    ELSE IF a.letter # b.letter THEN Bool(a.letter < b.letter)
    ELSE IF a.left # b.left
         THEN IF a.left = None \/ b.left = None THEN "TypeError"
              ELSE NodeLtReversed(a.left, b.left)
    ELSE IF a.right # b.right
         THEN IF a.right = None \/ b.right = None THEN "TypeError"
              ELSE NodeLtReversed(a.right, b.right)
    ELSE "false"

RECURSIVE NodeLt(_, _)
NodeLt(a, b) ==
    IF a.count # b.count THEN Bool(a.count < b.count)
    ELSE IF a.letter # b.letter THEN Bool(a.letter < b.letter)
    ELSE IF a.left # b.left
         THEN IF a.left = None \/ b.left = None THEN "TypeError"
              ELSE NodeLt(a.left, b.left)
    ELSE IF a.right # b.right
         THEN IF a.right = None \/ b.right = None THEN "TypeError"
              ELSE NodeLt(a.right, b.right)
    ELSE "false"

\* ------------------------------------------------------------ heapq
\* heapq._siftdown(heap, startpos, pos), the loop with newitem held aside.
RECURSIVE SiftDown(_, _, _, _)
SiftDown(heap, startpos, pos, newitem) ==
    IF pos > startpos
    THEN LET parentpos == (pos - 1) \div 2
             parent == At(heap, parentpos)
         IN  IfLt(NodeLt(newitem, parent),
                  SiftDown(Put(heap, pos, parent), startpos, parentpos, newitem),
                  Ok(Put(heap, pos, newitem)))
    ELSE Ok(Put(heap, pos, newitem))

\* The while loop of heapq._siftup: bubble the smaller child up until a leaf.
RECURSIVE SiftUpLoop(_, _, _)
SiftUpLoop(heap, pos, childpos) ==
    IF childpos < Len(heap)
    THEN LET rightpos == childpos + 1
         IN  IfLt(IF rightpos < Len(heap)
                  THEN NodeLt(At(heap, childpos), At(heap, rightpos))
                  ELSE "true",
                  SiftUpLoop(Put(heap, pos, At(heap, childpos)), childpos, 2 * childpos + 1),
                  SiftUpLoop(Put(heap, pos, At(heap, rightpos)), rightpos, 2 * rightpos + 1))
    ELSE Ok([heap |-> heap, pos |-> pos])

\* The end of heapq._siftup: newitem goes to the leaf the loop reached and is
\* sifted down from there to startpos.
SiftUpEnd(loop, startpos, newitem) ==
    IF loop.err # "none" THEN loop
    ELSE SiftDown(Put(loop.val.heap, loop.val.pos, newitem), startpos, loop.val.pos, newitem)

\* heapq._siftup(heap, pos)
SiftUp(heap, pos) == SiftUpEnd(SiftUpLoop(heap, pos, 2 * pos + 1), pos, At(heap, pos))

\* heapq.heappush(heap, item)
heappush(heap, item) == SiftDown(Append(heap, item), 0, Len(heap), item)

\* heappop's return of heap[0], once the last element is sifted from the root.
PopReturn(sifted, returnitem) ==
    IF sifted.err # "none" THEN sifted
    ELSE Ok([item |-> returnitem, heap |-> sifted.val])

\* heapq.heappop(heap): Ok([item, heap]) or IndexError on an empty heap.
heappop(heap) ==
    IF heap = <<>> THEN Raise("IndexError")
    ELSE LET lastelt == heap[Len(heap)]
             rest == SubSeq(heap, 1, Len(heap) - 1)
         IN  IF rest = <<>> THEN Ok([item |-> lastelt, heap |-> rest])
             ELSE PopReturn(SiftUp(Put(rest, 0, lastelt), 0), At(rest, 0))

\* heapq.heapify(x): for i in reversed(range(n//2)): _siftup(x, i)
RECURSIVE HeapifyFrom(_, _)
HeapifyNext(sifted, i) ==
    IF sifted.err # "none" THEN sifted ELSE HeapifyFrom(sifted.val, i)

HeapifyFrom(x, i) ==
    IF i < 0 THEN Ok(x) ELSE HeapifyNext(SiftUp(x, i), i - 1)

heapify(x) == HeapifyFrom(x, (Len(x) \div 2) - 1)

\* ------------------------------------------------------------ make_tree
\* Lines 21-23: the popped pair becomes a node '\0' that is pushed.
MergeRight(left, popped) ==
    IF popped.err # "none" THEN popped
    ELSE heappush(popped.val.heap,
                  Node(left.count + popped.val.item.count, 0, left, popped.val.item))

\* Lines 18-19: left = heappop(heap), then right = heappop(heap).
MergeLeft(popped) ==
    IF popped.err # "none" THEN popped
    ELSE MergeRight(popped.val.item, heappop(popped.val.heap))

\* Line 25: return heappop(heap)
PopRoot(popped) == IF popped.err # "none" THEN popped ELSE Ok(popped.val.item)

RECURSIVE make_tree(_)
MakeTreeNext(pushed) == IF pushed.err # "none" THEN pushed ELSE make_tree(pushed.val)

make_tree(heap) ==
    IF Len(heap) > 1 THEN MakeTreeNext(MergeLeft(heappop(heap)))
    ELSE PopRoot(heappop(heap))

is_leaf(node) == node.left = None /\ node.right = None

\* ------------------------------------------------------------ make_table
EmptyTable == <<>>

\* table[key] = value
SetItem(table, key, value) == (key :> value) @@ table

\* make_table_recursive with path+'0' passed to both children.
RECURSIVE make_table_same_path(_, _, _)
make_table_same_path(node, path, table) ==
    IF node = None THEN table
    ELSE IF is_leaf(node) THEN SetItem(table, node.letter, path)
    ELSE make_table_same_path(node.right, Append(path, 0),
             make_table_same_path(node.left, Append(path, 0), table))

RECURSIVE make_table_recursive(_, _, _)
make_table_recursive(node, path, table) ==
    IF node = None THEN table
    ELSE IF is_leaf(node) THEN SetItem(table, node.letter, path)
    ELSE make_table_recursive(node.right, Append(path, 1),
             make_table_recursive(node.left, Append(path, 0), table))

make_table(root) == make_table_recursive(root, <<>>, EmptyTable)

\* ------------------------------------------------------------ encode
\* Counter(text).items(): the distinct letters in order of first occurrence,
\* each with its number of occurrences.
Occurrences(text, x) == Cardinality({i \in 1..Len(text) : text[i] = x})

RECURSIVE CounterItems(_, _)
CounterItems(text, i) ==
    IF i > Len(text) THEN <<>>
    ELSE LET rest == CounterItems(text, i + 1)
         IN  IF \E j \in 1..(i - 1) : text[j] = text[i] THEN rest
             ELSE <<[letter |-> text[i], count |-> Occurrences(text, text[i])]>> \o rest

RECURSIVE Join(_)
Join(codes) == IF codes = <<>> THEN <<>> ELSE Head(codes) \o Join(Tail(codes))

\* Lines 81-83: codes = [table[c] for c in text]; return ''.join(codes), root
RECURSIVE Codes(_, _)
Codes(text, table) ==
    IF text = <<>> THEN <<>> ELSE <<table[Head(text)]>> \o Codes(Tail(text), table)

EncodeWith(text, root, table) ==
    Ok([code |-> Join(Codes(text, table)), tree |-> root, table |-> table])

\* Line 79: table = make_table(root)
EncodeTree(text, root) ==
    IF root.err # "none" THEN root ELSE EncodeWith(text, root.val, make_table(root.val))

\* Line 77: root = make_tree(heap)
EncodeHeap(text, heap) ==
    IF heap.err # "none" THEN heap ELSE EncodeTree(text, make_tree(heap.val))

\* Line 72: nodes = [Node(count, letter, None, None) for letter, count in c.items()]
RECURSIVE LeafNodes(_)
LeafNodes(c) ==
    IF c = <<>> THEN <<>>
    ELSE <<Node(Head(c).count, Head(c).letter, None, None)>> \o LeafNodes(Tail(c))

encode(text) == EncodeHeap(text, heapify(LeafNodes(CounterItems(text, 1))))

\* ------------------------------------------------------------ decode
\* The for loop of decode from position i, with the walk at node.  node.left
\* of None, and is_leaf(None), raise AttributeError.
RECURSIVE DecodeLoop(_, _, _, _, _)
DecodeLoop(code, tree, i, node, result) ==
    IF i > Len(code) THEN Ok([result |-> result, node |-> node])
    ELSE IF node = None THEN Raise("AttributeError")
    ELSE LET next == IF code[i] = 0 THEN node.left ELSE node.right
         IN  IF next = None THEN Raise("AttributeError")
             ELSE IF is_leaf(next)
                  THEN DecodeLoop(code, tree, i + 1, tree, Append(result, next.letter))
                  ELSE DecodeLoop(code, tree, i + 1, next, result)

\* Line 104: return ''.join(result)
DecodeReturn(walk) == IF walk.err # "none" THEN walk ELSE Ok(walk.val.result)

decode(code, tree) == DecodeReturn(DecodeLoop(code, tree, 1, tree, <<>>))

\* ------------------------------------------------------------ tree file
\* tree_for_compression(tree): the tree without its counts.
RECURSIVE tree_for_compression(_)
tree_for_compression(tree) ==
    CompressNode(tree.letter,
                 IF tree.left # None THEN tree_for_compression(tree.left) ELSE None,
                 IF tree.right # None THEN tree_for_compression(tree.right) ELSE None)

\* json.dump of a CompressNode and json.load of the text it wrote: a namedtuple
\* is written as the array [letter, left, right] and None as null; null is
\* read back as None, which is the only falsy value list_to_tree meets here.
JsonNull == <<>>

RECURSIVE JsonDump(_)
JsonDump(cn) ==
    IF cn = None THEN JsonNull
    ELSE <<cn.letter, JsonDump(cn.left), JsonDump(cn.right)>>

\* list_to_tree(l)
RECURSIVE list_to_tree(_)
list_to_tree(l) ==
    CompressNode(At(l, 0),
                 IF At(l, 1) # JsonNull THEN list_to_tree(At(l, 1)) ELSE None,
                 IF At(l, 2) # JsonNull THEN list_to_tree(At(l, 2)) ELSE None)

\* ------------------------------------------------------------ code file
\* int(s, 2) of a string of binary digits: ValueError on the empty string.
RECURSIVE BinaryValue(_)
BinaryValue(s) ==
    IF s = <<>> THEN 0 ELSE 2 * BinaryValue(SubSeq(s, 1, Len(s) - 1)) + s[Len(s)]

ParseBinary(s) == IF s = <<>> THEN Raise("ValueError") ELSE Ok(BinaryValue(s))

\* code[a:b] on a string, with Python's clipping of b to the length.
Slice(s, a, b) == SubSeq(s, a + 1, IF b > Len(s) THEN Len(s) ELSE b)

\* s[-n:]: the last n characters, and the whole string when n is 0.
LastChars(s, n) ==
    IF n = 0 \/ n >= Len(s) THEN s ELSE SubSeq(s, Len(s) - n + 1, Len(s))

\* Line 143: data = [prefix_len, int(code[:prefix_len], 2)] + data
PackHead(prefix_len, first, data) ==
    IF first.err # "none" THEN first ELSE Ok(<<prefix_len, first.val>> \o data)

\* Lines 139-141: for i in range(len(code) // 8), from i on.
RECURSIVE DataBytes(_, _, _)
DataBytes(code, prefix_len, i) ==
    IF i >= Len(code) \div 8 THEN <<>>
    ELSE <<BinaryValue(Slice(code, prefix_len + 8 * i, prefix_len + 8 * (i + 1)))>>
         \o DataBytes(code, prefix_len, i + 1)

\* Lines 135-144 of encode_to_files: the bytes of the code file.
PackBytes(code) ==
    PackHead(Len(code) % 8, ParseBinary(Slice(code, 0, Len(code) % 8)),
             DataBytes(code, Len(code) % 8, 0))

\* encode_to_files(text): the contents of the two files it writes.
WriteFiles(e, data) ==
    IF data.err # "none" THEN data
    ELSE Ok([codefile |-> data.val,
             treefile |-> JsonDump(tree_for_compression(e.tree)),
             code |-> e.code, tree |-> e.tree, table |-> e.table])

PackEncoded(e) == IF e.err # "none" THEN e ELSE WriteFiles(e.val, PackBytes(e.val.code))

encode_to_files(text) == PackEncoded(encode(text))

\* '1' if byte & (1 << (7-n)) else '0'
Bit(byte, n) == (byte \div 2 ^ (7 - n)) % 2

\* byte_to_bits(byte): the bit for each n in range(8)
byte_to_bits(byte) ==
    <<Bit(byte, 0), Bit(byte, 1), Bit(byte, 2), Bit(byte, 3),
      Bit(byte, 4), Bit(byte, 5), Bit(byte, 6), Bit(byte, 7)>>

\* Line 173: codes = [byte_to_bits(x) for x in bts[1:]], given bts[1:]
RECURSIVE BytesToBits(_)
BytesToBits(data) ==
    IF data = <<>> THEN <<>> ELSE <<byte_to_bits(Head(data))>> \o BytesToBits(Tail(data))

\* Lines 170-174 of decode_from_files: the bit string rebuilt from the bytes.
UnpackBits(bts) ==
    IF bts = <<>> THEN Raise("IndexError")
    ELSE LET prefix_len == At(bts, 0)
             codes == BytesToBits(Tail(bts))
         IN  IF codes = <<>> THEN Raise("IndexError")
             ELSE Ok(Join(Put(codes, 0, LastChars(At(codes, 0), prefix_len))))

\* decode_from_files over the contents of the two files.
DecodeUnpacked(codes, tree) ==
    IF codes.err # "none" THEN codes ELSE decode(codes.val, tree)

decode_from_files(bts, lst) == DecodeUnpacked(UnpackBits(bts), list_to_tree(lst))

\* ------------------------------------------------------------ files of other writers
\* Code files in the layout of the format: the prefix length 0..7, the partial
\* byte, then up to MaxData full bytes; and files cut short of that.
ByteValues == {b \in 0..255 : b % ByteStep = 0}

ForeignCodeFiles ==
    {<<>>} \cup {<<p>> : p \in 0..7}
    \cup {<<p, b>> \o d : p \in 0..7, b \in ByteValues, d \in SeqsUpTo(ByteValues, MaxData)}

\* Tree files as encode_to_files writes them.
TreeFileOf(e) == IF e.err = "none" THEN {JsonDump(tree_for_compression(e.val.tree))} ELSE {}

ForeignTreeFiles == UNION {TreeFileOf(encode(t)) : t \in Texts}

\* ------------------------------------------------------------ state
VARIABLES
    pc,        \* the call that returned last: "idle" before any
    err,       \* the exception that call raised, "none" if it returned
    text,      \* the text given to encode or encode_to_files
    code,      \* encode's bit string
    tree,      \* encode's root Node
    table,     \* the table make_table built inside encode
    arg,       \* the bit string given to decode
    result,    \* what decode or decode_from_files returned
    codefile,  \* bytes of the code file
    treefile,  \* JSON value of the tree file
    bits       \* the bit string decode_from_files rebuilt from the code file

vars == <<pc, err, text, code, tree, table, arg, result, codefile, treefile, bits>>

Init ==
    /\ pc = "idle"
    /\ err = "none"
    /\ text = <<>>
    /\ code = <<>>
    /\ tree = None
    /\ table = EmptyTable
    /\ arg = <<>>
    /\ result = <<>>
    /\ codefile = <<>>
    /\ treefile = JsonNull
    /\ bits = <<>>

\* The value a call returned, or dflt if it raised.
Returned(r, dflt) == IF r.err = "none" THEN r.val ELSE dflt

NoEncoding == [code |-> <<>>, tree |-> None, table |-> EmptyTable]

\* encode's locals and return value, kept for the calls that follow.
Encoded(e) ==
    /\ code' = e.code
    /\ tree' = e.tree
    /\ table' = e.table

\* code, tree = encode(t), for a text t
Encode ==
    /\ pc = "idle"
    /\ \E t \in Texts :
           /\ text' = t
           /\ err' = encode(t).err
           /\ Encoded(Returned(encode(t), NoEncoding))
    /\ pc' = "encode"
    /\ UNCHANGED <<arg, result, codefile, treefile, bits>>

\* decode(c, tree) with the tree encode returned and c the code it returned,
\* whole (cut = 0) or with its last cut bits missing.
Decode ==
    /\ pc = "encode"
    /\ err = "none"
    /\ \E cut \in 0..MaxCut :
           /\ cut <= Len(code)
           /\ arg' = SubSeq(code, 1, Len(code) - cut)
    /\ err' = decode(arg', tree).err
    /\ result' = Returned(decode(arg', tree), <<>>)
    /\ pc' = "decode"
    /\ UNCHANGED <<text, code, tree, table, codefile, treefile, bits>>

\* The two files are written only after the bytes are built.
Written(w) ==
    /\ codefile' = w.codefile
    /\ treefile' = w.treefile
    /\ Encoded(w)

\* encode_to_files(t, codefile, treefile), for a text t
EncodeToFiles ==
    /\ pc = "idle"
    /\ \E t \in FileTexts :
           /\ text' = t
           /\ err' = encode_to_files(t).err
           /\ Written(Returned(encode_to_files(t),
                               [codefile |-> codefile, treefile |-> treefile] @@ NoEncoding))
    /\ pc' = "encode_to_files"
    /\ UNCHANGED <<arg, result, bits>>

\* decode_from_files(codefile, treefile) over files holding bts and lst.
DecodeFromFiles(bts, lst) ==
    /\ pc' = "decode_from_files"
    /\ codefile' = bts
    /\ treefile' = lst
    /\ bits' = Returned(UnpackBits(bts), <<>>)
    /\ err' = decode_from_files(bts, lst).err
    /\ result' = Returned(decode_from_files(bts, lst), <<>>)
    /\ UNCHANGED <<text, code, tree, table, arg>>

\* The files encode_to_files has just written are read back.
ReadBack ==
    /\ pc = "encode_to_files"
    /\ err = "none"
    /\ DecodeFromFiles(codefile, treefile)

\* Files that this run did not write are read.
ReadForeign ==
    /\ pc = "idle"
    /\ \E bts \in ForeignCodeFiles, lst \in ForeignTreeFiles : DecodeFromFiles(bts, lst)

Next ==
    \/ Encode
    \/ Decode
    \/ EncodeToFiles
    \/ ReadBack
    \/ ReadForeign

Spec == Init /\ [][Next]_vars

\* ------------------------------------------------------------ properties
\* The node decode's walk stands on after the last bit of c.
WalkEnd(c, t) ==
    LET walk == DecodeLoop(c, t, 1, t, <<>>)
    IN  IF walk.err # "none" THEN None ELSE walk.val.node

IsPrefix(p, q) == Len(p) <= Len(q) /\ SubSeq(q, 1, Len(p)) = p

LettersOf(t) == {t[i] : i \in 1..Len(t)}

\* encode has returned a code and a tree for text.
EncodeReturned == pc = "encode" /\ err = "none"

\* decode_from_files has read the files that encode_to_files wrote for text.
ReadOwnFiles == pc = "decode_from_files" /\ tree # None

\* C1: decode(code, tree) on the pair encode(T) returned, T not empty, returns T.
C1_RoundTrip ==
    (pc = "decode" /\ arg = code /\ text # <<>>) => (err = "none" /\ result = text)

\* C2: encode_to_files(T, c, t) completes whenever encode(T) does, and
\* decode_from_files(c, t) on the files it wrote returns T.
C2_FileRoundTrip ==
    /\ (pc = "encode_to_files" /\ encode(text).err = "none") => err = "none"
    /\ ReadOwnFiles => (err = "none" /\ result = text)

\* C3: in the table make_table derived, no code of a symbol is a prefix of
\* the code of another symbol.
C3_PrefixFree ==
    \A a \in DOMAIN table : \A b \in DOMAIN table \ {a} : ~IsPrefix(table[a], table[b])

C3_Witness ==
    /\ EncodeReturned
    /\ Cardinality(DOMAIN table) >= 3
    /\ 0 \in DOMAIN table
    /\ \E a, b \in DOMAIN table : Len(table[a]) < Len(table[b])

\* The sum over the symbols s of S of count(s) * lens[s].
RECURSIVE Cost(_, _, _)
Cost(S, t, lens) ==
    IF S = {} THEN 0
    ELSE LET s == CHOOSE x \in S : TRUE
         IN  Occurrences(t, s) * lens[s] + Cost(S \ {s}, t, lens)

\* The sum over the symbols s of S of 2^(MaxCodeLen - lens[s]): Kraft's sum
\* scaled by 2^MaxCodeLen.
RECURSIVE KraftSum(_, _)
KraftSum(S, lens) ==
    IF S = {} THEN 0
    ELSE LET s == CHOOSE x \in S : TRUE
         IN  2 ^ (MaxCodeLen - lens[s]) + KraftSum(S \ {s}, lens)

\* The code lengths of the prefix-free codes for the symbols S with code words
\* of at most MaxCodeLen bits: a prefix-free code with lengths lens exists
\* exactly when Kraft's sum is at most 1.
PrefixFreeLengths(S) ==
    {lens \in [S -> 0..MaxCodeLen] : KraftSum(S, lens) <= 2 ^ MaxCodeLen}

TableLengths == [s \in DOMAIN table |-> Len(table[s])]

\* C4: the code encode returns has count(s) * length(code(s)) bits summed over
\* the symbols, and no prefix-free code for the same symbols and counts has a
\* smaller such sum.
C4_Optimal ==
    EncodeReturned =>
        /\ DOMAIN table = LettersOf(text)
        /\ Len(code) = Cost(DOMAIN table, text, TableLengths)
        /\ \A lens \in PrefixFreeLengths(DOMAIN table) :
               Cost(DOMAIN table, text, lens) >= Len(code)

C4_Witness ==
    /\ EncodeReturned
    /\ Cardinality(DOMAIN table) >= 3
    /\ \E a, b \in DOMAIN table :
           /\ Occurrences(text, a) > Occurrences(text, b)
           /\ Len(table[a]) < Len(table[b])
    /\ \E lens \in PrefixFreeLengths(DOMAIN table) :
           /\ lens # TableLengths
           /\ \A s \in DOMAIN table : lens[s] <= Cardinality(DOMAIN table) - 1
           /\ Cost(DOMAIN table, text, lens) > Len(code)

\* C5: a text of one distinct symbol gets a tree that is a single leaf, and
\* every code of every table is at least one bit long.
C5_NonEmptyCodes ==
    EncodeReturned =>
        /\ Cardinality(LettersOf(text)) = 1 => is_leaf(tree)
        /\ \A s \in DOMAIN table : Len(table[s]) >= 1

\* C6: encode of the empty text fails with EmptyInput.
C6_EmptyInput == (pc = "encode" /\ text = <<>>) => err = "EmptyInput"

\* C7: with a tree of two leaves or more, decode of bits whose walk ends on an
\* internal node other than the root fails with MalformedBitstream.
C7_MalformedBitstream ==
    (pc = "decode" /\ ~is_leaf(tree) /\ WalkEnd(arg, tree) \notin {None, tree})
        => err = "MalformedBitstream"

\* C8: for a code of L bits encode_to_files writes 2 + L div 8 bytes: L mod 8,
\* the value of the first L mod 8 bits (0 if none), then each next 8 bits as a
\* byte, most significant bit first.
C8_PackedLayout ==
    (pc = "encode_to_files" /\ encode(text).err = "none") =>
        LET enc == encode(text).val.code
            L == Len(enc)
            p == L % 8
        IN  /\ err = "none"
            /\ Len(codefile) = 2 + L \div 8
            /\ codefile[1] = p
            /\ codefile[2] = BinaryValue(SubSeq(enc, 1, p))
            /\ \A i \in 1..(L \div 8) :
                   codefile[2 + i] = BinaryValue(SubSeq(enc, p + 8 * (i - 1) + 1, p + 8 * i))

\* C9: of a code file of n bytes whose byte 0 is a prefix length p in 0..7,
\* decode_from_files rebuilds 8 * (n - 2) + p bits, the first p of them the
\* low p bits of byte 1.
C9_PartialByte ==
    (pc = "decode_from_files" /\ Len(codefile) >= 2 /\ codefile[1] \in 0..7) =>
        /\ Len(bits) = 8 * (Len(codefile) - 2) + codefile[1]
        /\ SubSeq(bits, 1, codefile[1])
               = SubSeq(byte_to_bits(codefile[2]), 8 - codefile[1] + 1, 8)

\* C10: for a text that is not empty no comparison of the heap raises:
\* make_tree ends with one root.
C10_TotalOrder == (pc = "encode" /\ text # <<>>) => (err = "none" /\ tree # None)

=============================================================================
